---- MODULE Spec2Model ----
(***************************************************************************)
(* Model of src/Storages/MutationCommands.cpp: the classifier              *)
(* MutationCommand::parse, the list codec (ast / writeText / readText /    *)
(* toString) and the list predicates of MutationCommands.                  *)
(***************************************************************************)
EXTENDS Integers, Sequences, FiniteSets

\* ------------------------------------------------------------------ bounds
MaxLen == 2        \* commands held by one MutationCommands list
MaxAssign == 2     \* assignments carried by one UPDATE node

\* ------------------------------------------------------- syntax-tree values
NULL == "nullptr"

ColumnNames == {"a", "b"}
ValueExprs == {"e1", "e2"}
\* a predicate is an expression; TabPredicate holds a string literal with a TAB
TabPredicate == "x = '<TAB>'"
Predicates == {"p", TabPredicate}
Partitions == {"p1"}
TypeNames == {"UInt8", "String"}

NoColumnDeclaration == [name |-> NULL, type |-> NULL]

\* ASTAlterCommand with every member at its default
BlankAlterCommand ==
    [type |-> "NO_TYPE", predicate |-> NULL, partition |-> NULL,
     update_assignments |-> << >>, column |-> NULL, rename_to |-> NULL,
     index |-> NULL, projection |-> NULL, statistic_decl |-> << >>,
     col_decl |-> NoColumnDeclaration,
     clear_column |-> FALSE, clear_index |-> FALSE,
     clear_statistic |-> FALSE, clear_projection |-> FALSE]

OptPartitions == Partitions \cup {NULL}

RECURSIVE SeqsUpTo(_, _)
\* all sequences over S of length 1..n
SeqsUpTo(S, n) ==
    IF n = 0 THEN {}
    ELSE LET shorter == SeqsUpTo(S, n - 1)
         IN  {<<x>> : x \in S} \cup shorter
             \cup {Append(s, x) : s \in shorter, x \in S}

Assignments == [column_name : ColumnNames, expression : ValueExprs]
StatisticDecls == {<<"a">>, <<"a", "b">>}

NodeDelete(pred, part) ==
    [BlankAlterCommand EXCEPT !.type = "DELETE", !.predicate = pred, !.partition = part]
NodeUpdate(asgs, pred, part) ==
    [BlankAlterCommand EXCEPT !.type = "UPDATE", !.update_assignments = asgs,
                              !.predicate = pred, !.partition = part]
NodeMaterializeIndex(name, part) ==
    [BlankAlterCommand EXCEPT !.type = "MATERIALIZE_INDEX", !.index = name, !.partition = part]
NodeMaterializeStatistic(cols, part) ==
    [BlankAlterCommand EXCEPT !.type = "MATERIALIZE_STATISTIC", !.statistic_decl = cols,
                              !.partition = part]
NodeMaterializeProjection(name, part) ==
    [BlankAlterCommand EXCEPT !.type = "MATERIALIZE_PROJECTION", !.projection = name,
                              !.partition = part]
NodeMaterializeColumn(col, part) ==
    [BlankAlterCommand EXCEPT !.type = "MATERIALIZE_COLUMN", !.column = col, !.partition = part]
NodeMaterializeTTL(part) ==
    [BlankAlterCommand EXCEPT !.type = "MATERIALIZE_TTL", !.partition = part]
NodeModifyColumn(col, ty) ==
    [BlankAlterCommand EXCEPT !.type = "MODIFY_COLUMN", !.col_decl = [name |-> col, type |-> ty]]
NodeDropColumn(col, clr, part) ==
    [BlankAlterCommand EXCEPT !.type = "DROP_COLUMN", !.column = col, !.clear_column = clr,
                              !.partition = part]
NodeDropIndex(name, clr, part) ==
    [BlankAlterCommand EXCEPT !.type = "DROP_INDEX", !.index = name, !.clear_index = clr,
                              !.partition = part]
NodeDropStatistic(cols, clr, part) ==
    [BlankAlterCommand EXCEPT !.type = "DROP_STATISTIC", !.statistic_decl = cols,
                              !.clear_statistic = clr, !.partition = part]
NodeDropProjection(name, clr, part) ==
    [BlankAlterCommand EXCEPT !.type = "DROP_PROJECTION", !.projection = name,
                              !.clear_projection = clr, !.partition = part]
NodeRenameColumn(col, to) ==
    [BlankAlterCommand EXCEPT !.type = "RENAME_COLUMN", !.column = col, !.rename_to = to]
NodeAddColumn(col, ty) ==
    [BlankAlterCommand EXCEPT !.type = "ADD_COLUMN", !.col_decl = [name |-> col, type |-> ty]]
NodeDropPartition(part) ==
    [BlankAlterCommand EXCEPT !.type = "DROP_PARTITION", !.partition = part]

\* the ALTER-command nodes the statement parser hands to the classifier
Nodes ==
    {NodeDelete(p, q) : p \in Predicates, q \in OptPartitions}
    \cup {NodeUpdate(s, "p", q) : s \in SeqsUpTo(Assignments, MaxAssign), q \in OptPartitions}
    \cup {NodeMaterializeIndex("idx", q) : q \in OptPartitions}
    \cup {NodeMaterializeStatistic(c, q) : c \in StatisticDecls, q \in OptPartitions}
    \cup {NodeMaterializeProjection("prj", q) : q \in OptPartitions}
    \cup {NodeMaterializeColumn(c, q) : c \in ColumnNames, q \in OptPartitions}
    \cup {NodeMaterializeTTL(q) : q \in OptPartitions}
    \cup {NodeModifyColumn(c, t) : c \in ColumnNames, t \in TypeNames}
    \cup {NodeDropColumn(c, k, q) : c \in ColumnNames, k \in BOOLEAN, q \in OptPartitions}
    \cup {NodeDropIndex("idx", k, q) : k \in BOOLEAN, q \in OptPartitions}
    \cup {NodeDropStatistic(c, k, q) : c \in StatisticDecls, k \in BOOLEAN, q \in OptPartitions}
    \cup {NodeDropProjection("prj", k, q) : k \in BOOLEAN, q \in OptPartitions}
    \cup {NodeRenameColumn("a", "b"), NodeRenameColumn("b", "a")}
    \cup {NodeAddColumn(c, t) : c \in ColumnNames, t \in TypeNames}
    \cup {NodeDropPartition(q) : q \in Partitions}

Asg(c, e) == [column_name |-> c, expression |-> e]

\* the nodes of the statements whose command lists are built and persisted
ListNodes ==
    {NodeDelete(TabPredicate, "p1"), NodeDelete("p", NULL),
     NodeUpdate(<<Asg("a", "e1"), Asg("b", "e2")>>, "p", NULL),
     NodeUpdate(<<Asg("a", "e1"), Asg("a", "e2")>>, "p", NULL),
     NodeUpdate(<<Asg("b", "e1")>>, "p", "p1"),
     NodeMaterializeIndex("idx", "p1"),
     NodeMaterializeStatistic(<<"a", "b">>, NULL),
     NodeMaterializeProjection("prj", "p1"),
     NodeMaterializeColumn("a", NULL),
     NodeMaterializeTTL("p1"), NodeMaterializeTTL(NULL),
     NodeModifyColumn("a", "UInt8"),
     NodeDropColumn("a", TRUE, "p1"), NodeDropColumn("b", FALSE, NULL),
     NodeDropIndex("idx", TRUE, NULL),
     NodeDropStatistic(<<"a">>, TRUE, "p1"), NodeDropStatistic(<<"a", "b">>, FALSE, NULL),
     NodeDropProjection("prj", TRUE, "p1"),
     NodeRenameColumn("a", "b"),
     NodeAddColumn("b", "String"),
     NodeDropPartition("p1")}

\* ------------------------------------------------ rendering (formatAST)
\* a string literal is rendered quoted, its TAB written as backslash-t
FormatExpr(e) == IF e = TabPredicate THEN "x = '\\t'" ELSE e

FormatPartition(node) ==
    IF node.partition = NULL THEN << >> ELSE <<"IN PARTITION", node.partition>>

RECURSIVE FormatAssignments(_, _)
FormatAssignments(asgs, i) ==
    IF i > Len(asgs) THEN << >>
    ELSE (IF i > 1 THEN <<",">> ELSE << >>)
         \o <<asgs[i].column_name, "=", FormatExpr(asgs[i].expression)>>
         \o FormatAssignments(asgs, i + 1)

RECURSIVE FormatNames(_, _)
FormatNames(names, i) ==
    IF i > Len(names) THEN << >>
    ELSE (IF i > 1 THEN <<",">> ELSE << >>) \o <<names[i]>> \o FormatNames(names, i + 1)

FormatStatisticDecl(cols) == FormatNames(cols, 1) \o <<"TYPE", "tdigest">>

\* ASTAlterCommand rendered on one line
FormatAlterCommand(node) ==
    CASE node.type = "DELETE" ->
           <<"DELETE">> \o FormatPartition(node) \o <<"WHERE", FormatExpr(node.predicate)>>
      [] node.type = "UPDATE" ->
           <<"UPDATE">> \o FormatAssignments(node.update_assignments, 1)
           \o FormatPartition(node) \o <<"WHERE", FormatExpr(node.predicate)>>
      [] node.type = "MATERIALIZE_INDEX" ->
           <<"MATERIALIZE INDEX", node.index>> \o FormatPartition(node)
      [] node.type = "MATERIALIZE_STATISTIC" ->
           <<"MATERIALIZE STATISTIC">> \o FormatStatisticDecl(node.statistic_decl)
           \o FormatPartition(node)
      [] node.type = "MATERIALIZE_PROJECTION" ->
           <<"MATERIALIZE PROJECTION", node.projection>> \o FormatPartition(node)
      [] node.type = "MATERIALIZE_COLUMN" ->
           <<"MATERIALIZE COLUMN", node.column>> \o FormatPartition(node)
      [] node.type = "MATERIALIZE_TTL" ->
           <<"MATERIALIZE TTL">> \o FormatPartition(node)
      [] node.type = "MODIFY_COLUMN" ->
           <<"MODIFY COLUMN", node.col_decl.name, node.col_decl.type>>
      [] node.type = "DROP_COLUMN" ->
           <<IF node.clear_column THEN "CLEAR COLUMN" ELSE "DROP COLUMN", node.column>>
           \o FormatPartition(node)
      [] node.type = "DROP_INDEX" ->
           <<IF node.clear_index THEN "CLEAR INDEX" ELSE "DROP INDEX", node.index>>
           \o FormatPartition(node)
      [] node.type = "DROP_STATISTIC" ->
           <<IF node.clear_statistic THEN "CLEAR STATISTIC" ELSE "DROP STATISTIC">>
           \o FormatStatisticDecl(node.statistic_decl) \o FormatPartition(node)
      [] node.type = "DROP_PROJECTION" ->
           <<IF node.clear_projection THEN "CLEAR PROJECTION" ELSE "DROP PROJECTION",
             node.projection>> \o FormatPartition(node)
      [] node.type = "RENAME_COLUMN" ->
           <<"RENAME COLUMN", node.column, "TO", node.rename_to>>
      [] node.type = "ADD_COLUMN" ->
           <<"ADD COLUMN", node.col_decl.name, node.col_decl.type>>
      [] node.type = "DROP_PARTITION" ->
           <<"DROP PARTITION", node.partition>>

RECURSIVE FormatList(_, _)
FormatList(nodes, i) ==
    IF i > Len(nodes) THEN << >>
    ELSE (IF i > 1 THEN <<",">> ELSE << >>) \o FormatAlterCommand(nodes[i])
         \o FormatList(nodes, i + 1)

\* formatAST(list, hilite = false, one_line = true): the text as a token sequence
formatAST(nodes) == FormatList(nodes, 1)

\* ------------------------------------- escaping (writeEscapedString and back)
EscapeToken(t) == IF t = "x = '\\t'" THEN "x = '\\\\t'" ELSE t
UnescapeToken(t) == IF t = "x = '\\\\t'" THEN "x = '\\t'" ELSE t

writeEscapedString(text) == [i \in 1..Len(text) |-> EscapeToken(text[i])]
readEscapedString(text) == [i \in 1..Len(text) |-> UnescapeToken(text[i])]

\* --------------------------------- parsing (ParserAlterCommandList, parseQuery)
Keywords ==
    {"DELETE", "UPDATE", "WHERE", "IN PARTITION", "=", ",", "TYPE", "TO",
     "MATERIALIZE INDEX", "MATERIALIZE STATISTIC", "MATERIALIZE PROJECTION",
     "MATERIALIZE COLUMN", "MATERIALIZE TTL", "MODIFY COLUMN", "ADD COLUMN",
     "DROP COLUMN", "CLEAR COLUMN", "DROP INDEX", "CLEAR INDEX",
     "DROP STATISTIC", "CLEAR STATISTIC", "DROP PROJECTION", "CLEAR PROJECTION",
     "RENAME COLUMN", "DROP PARTITION", "<EOF>"}

Tok(toks, i) == IF i >= 1 /\ i <= Len(toks) THEN toks[i] ELSE "<EOF>"
IsWord(t) == t \notin Keywords

ParseExpr(t) == IF t = "x = '\\t'" THEN TabPredicate ELSE t

ParseFailure == [ok |-> FALSE, node |-> BlankAlterCommand, next |-> 0]
Parsed(node, next) == [ok |-> TRUE, node |-> node, next |-> next]

ParsePartition(toks, i) ==
    IF Tok(toks, i) = "IN PARTITION" /\ IsWord(Tok(toks, i + 1))
    THEN [partition |-> Tok(toks, i + 1), next |-> i + 2]
    ELSE [partition |-> NULL, next |-> i]

RECURSIVE ParseAssignmentList(_, _)
ParseAssignmentList(toks, i) ==
    IF IsWord(Tok(toks, i)) /\ Tok(toks, i + 1) = "=" /\ IsWord(Tok(toks, i + 2))
    THEN LET a == Asg(Tok(toks, i), ParseExpr(Tok(toks, i + 2)))
         IN  IF Tok(toks, i + 3) = ","
             THEN LET rest == ParseAssignmentList(toks, i + 4)
                  IN  [ok |-> rest.ok, list |-> <<a>> \o rest.list, next |-> rest.next]
             ELSE [ok |-> TRUE, list |-> <<a>>, next |-> i + 3]
    ELSE [ok |-> FALSE, list |-> << >>, next |-> 0]

RECURSIVE ParseNames(_, _)
ParseNames(toks, i) ==
    IF IsWord(Tok(toks, i))
    THEN IF Tok(toks, i + 1) = ","
         THEN LET rest == ParseNames(toks, i + 2)
              IN  [ok |-> rest.ok, list |-> <<Tok(toks, i)>> \o rest.list, next |-> rest.next]
         ELSE [ok |-> TRUE, list |-> <<Tok(toks, i)>>, next |-> i + 1]
    ELSE [ok |-> FALSE, list |-> << >>, next |-> 0]

ParseStatisticDecl(toks, i) ==
    LET names == ParseNames(toks, i)
    IN  IF names.ok /\ Tok(toks, names.next) = "TYPE" /\ IsWord(Tok(toks, names.next + 1))
        THEN [ok |-> TRUE, list |-> names.list, next |-> names.next + 2]
        ELSE [ok |-> FALSE, list |-> << >>, next |-> 0]

\* <keyword> name [IN PARTITION p]
ParseNamed(toks, i, node, field) ==
    IF IsWord(Tok(toks, i + 1))
    THEN LET p == ParsePartition(toks, i + 2)
         IN  Parsed([node EXCEPT ![field] = Tok(toks, i + 1), !.partition = p.partition], p.next)
    ELSE ParseFailure

\* <keyword> statistic-declaration [IN PARTITION p]
ParseWithStatistic(toks, i, node) ==
    LET d == ParseStatisticDecl(toks, i + 1)
        p == ParsePartition(toks, d.next)
    IN  IF d.ok
        THEN Parsed([node EXCEPT !.statistic_decl = d.list, !.partition = p.partition], p.next)
        ELSE ParseFailure

\* <keyword> name type
ParseColumnDeclaration(toks, i, node) ==
    IF IsWord(Tok(toks, i + 1)) /\ IsWord(Tok(toks, i + 2))
    THEN Parsed([node EXCEPT !.col_decl = [name |-> Tok(toks, i + 1), type |-> Tok(toks, i + 2)]],
                i + 3)
    ELSE ParseFailure

ParseWhere(toks, i, node) ==
    LET p == ParsePartition(toks, i)
    IN  IF Tok(toks, p.next) = "WHERE" /\ IsWord(Tok(toks, p.next + 1))
        THEN Parsed([node EXCEPT !.partition = p.partition,
                                 !.predicate = ParseExpr(Tok(toks, p.next + 1))], p.next + 2)
        ELSE ParseFailure

Typed(t) == [BlankAlterCommand EXCEPT !.type = t]

\* ParserAlterCommand: one command starting at token i
ParseAlterCommand(toks, i) ==
    LET kw == Tok(toks, i)
    IN  CASE kw = "DELETE" -> ParseWhere(toks, i + 1, Typed("DELETE"))
          [] kw = "UPDATE" ->
               LET a == ParseAssignmentList(toks, i + 1)
               IN  IF a.ok
                   THEN ParseWhere(toks, a.next,
                                   [Typed("UPDATE") EXCEPT !.update_assignments = a.list])
                   ELSE ParseFailure
          [] kw = "MATERIALIZE INDEX" -> ParseNamed(toks, i, Typed("MATERIALIZE_INDEX"), "index")
          [] kw = "MATERIALIZE STATISTIC" ->
               ParseWithStatistic(toks, i, Typed("MATERIALIZE_STATISTIC"))
          [] kw = "MATERIALIZE PROJECTION" ->
               ParseNamed(toks, i, Typed("MATERIALIZE_PROJECTION"), "projection")
          [] kw = "MATERIALIZE COLUMN" ->
               ParseNamed(toks, i, Typed("MATERIALIZE_COLUMN"), "column")
          [] kw = "MATERIALIZE TTL" ->
               LET p == ParsePartition(toks, i + 1)
               IN  Parsed([Typed("MATERIALIZE_TTL") EXCEPT !.partition = p.partition], p.next)
          [] kw = "MODIFY COLUMN" -> ParseColumnDeclaration(toks, i, Typed("MODIFY_COLUMN"))
          [] kw = "ADD COLUMN" -> ParseColumnDeclaration(toks, i, Typed("ADD_COLUMN"))
          [] kw = "DROP COLUMN" -> ParseNamed(toks, i, Typed("DROP_COLUMN"), "column")
          [] kw = "CLEAR COLUMN" ->
               ParseNamed(toks, i, [Typed("DROP_COLUMN") EXCEPT !.clear_column = TRUE], "column")
          [] kw = "DROP INDEX" -> ParseNamed(toks, i, Typed("DROP_INDEX"), "index")
          [] kw = "CLEAR INDEX" ->
               ParseNamed(toks, i, [Typed("DROP_INDEX") EXCEPT !.clear_index = TRUE], "index")
          [] kw = "DROP STATISTIC" -> ParseWithStatistic(toks, i, Typed("DROP_STATISTIC"))
          [] kw = "CLEAR STATISTIC" ->
               ParseWithStatistic(toks, i,
                                  [Typed("DROP_STATISTIC") EXCEPT !.clear_statistic = TRUE])
          [] kw = "DROP PROJECTION" -> ParseNamed(toks, i, Typed("DROP_PROJECTION"), "projection")
          [] kw = "CLEAR PROJECTION" ->
               ParseNamed(toks, i, [Typed("DROP_PROJECTION") EXCEPT !.clear_projection = TRUE],
                          "projection")
          [] kw = "RENAME COLUMN" ->
               IF IsWord(Tok(toks, i + 1)) /\ Tok(toks, i + 2) = "TO" /\ IsWord(Tok(toks, i + 3))
               THEN Parsed([Typed("RENAME_COLUMN") EXCEPT !.column = Tok(toks, i + 1),
                                                          !.rename_to = Tok(toks, i + 3)], i + 4)
               ELSE ParseFailure
          [] kw = "DROP PARTITION" ->
               IF IsWord(Tok(toks, i + 1))
               THEN Parsed([Typed("DROP_PARTITION") EXCEPT !.partition = Tok(toks, i + 1)], i + 2)
               ELSE ParseFailure
          [] OTHER -> ParseFailure

\* the keywords a command starts with; none occurs inside a command
CommandKeywords == Keywords \ {"WHERE", "IN PARTITION", "=", ",", "TYPE", "TO", "<EOF>"}

\* parseQuery with ParserAlterCommandList: one command, then as many
\* ", command" as follow; the whole text must parse, else SYNTAX_ERROR is thrown
parseQuery(text) ==
    LET starts == {i \in 1..Len(text) : text[i] \in CommandKeywords}
        n == Cardinality(starts)
        start == [k \in 1..n |-> CHOOSE i \in starts : Cardinality({j \in starts : j < i}) = k - 1]
        cmd == [k \in 1..n |-> ParseAlterCommand(text, start[k])]
        ok == /\ n >= 1
              /\ start[1] = 1
              /\ \A k \in 1..n :
                    /\ cmd[k].ok
                    /\ IF k = n THEN cmd[k].next = Len(text) + 1
                       ELSE cmd[k].next = start[k + 1] - 1 /\ text[cmd[k].next] = ","
    IN  [thrown |-> IF ok THEN NULL ELSE "SYNTAX_ERROR",
         children |-> IF ok THEN [k \in 1..n |-> cmd[k].node] ELSE << >>]

\* ------------------------------------------------------- MutationCommand
NullAST == [BlankAlterCommand EXCEPT !.type = NULL]

\* a default-constructed MutationCommand
EmptyCommand ==
    [type |-> "EMPTY", ast |-> NullAST, predicate |-> NULL, partition |-> NULL,
     column_to_update_expression |-> {}, column_name |-> NULL, rename_to |-> NULL,
     index_name |-> NULL, projection_name |-> NULL, statistic_columns |-> << >>,
     data_type |-> NULL, clear |-> FALSE]

isBarrierCommand_mut(command) == command.type = "DROP_COLUMN"

isBarrierCommand(command) == command.type = "RENAME_COLUMN"

\* DataTypeFactory::instance().get(type)
DataTypeFactory_get(type) ==
    CASE type = "UInt8" -> "DataTypeUInt8"
      [] type = "String" -> "DataTypeString"

Returned(res) == [thrown |-> NULL, has_value |-> TRUE, value |-> res]
Thrown(code) == [thrown |-> code, has_value |-> FALSE, value |-> EmptyCommand]

\* a fresh MutationCommand res with res.ast = command->ptr()
NewCommand(command) == [EmptyCommand EXCEPT !.ast = command]

emplace_mut(map, key, value) ==
    [map |-> {e \in map : e[1] # key} \cup {<<key, value>>}, second |-> TRUE]

\* std::unordered_map::emplace: no insertion when the key is present
emplace(map, key, value) ==
    IF \E e \in map : e[1] = key
    THEN [map |-> map, second |-> FALSE]
    ELSE [map |-> map \cup {<<key, value>>}, second |-> TRUE]

RECURSIVE UpdateAssignments(_, _, _)
\* the loop over command->update_assignments->children
UpdateAssignments(children, i, map) ==
    IF i > Len(children) THEN [thrown |-> NULL, map |-> map]
    ELSE LET insertion == emplace(map, children[i].column_name, children[i].expression)
         IN  IF ~insertion.second
             THEN [thrown |-> "MULTIPLE_ASSIGNMENTS_TO_COLUMN", map |-> insertion.map]
             ELSE UpdateAssignments(children, i + 1, insertion.map)

parseDelete(command) ==
    Returned([NewCommand(command) EXCEPT !.type = "DELETE",
                                         !.predicate = command.predicate,
                                         !.partition = command.partition])

parseUpdate(command) ==
    LET loop == UpdateAssignments(command.update_assignments, 1, {})
    IN  IF loop.thrown # NULL THEN Thrown(loop.thrown)
        ELSE Returned([NewCommand(command) EXCEPT !.type = "UPDATE",
                                                  !.predicate = command.predicate,
                                                  !.partition = command.partition,
                                                  !.column_to_update_expression = loop.map])

parseMaterializeIndex(command) ==
    Returned([NewCommand(command) EXCEPT !.type = "MATERIALIZE_INDEX",
                                         !.partition = command.partition,
                                         !.predicate = NULL,
                                         !.index_name = command.index])

parseMaterializeStatistic(command) ==
    Returned([NewCommand(command) EXCEPT !.type = "MATERIALIZE_STATISTIC",
                                         !.partition = command.partition,
                                         !.predicate = NULL,
                                         !.statistic_columns = command.statistic_decl])

parseMaterializeProjection(command) ==
    Returned([NewCommand(command) EXCEPT !.type = "MATERIALIZE_PROJECTION",
                                         !.partition = command.partition,
                                         !.predicate = NULL,
                                         !.projection_name = command.projection])

parseMaterializeColumn(command) ==
    Returned([NewCommand(command) EXCEPT !.type = "MATERIALIZE_COLUMN",
                                         !.partition = command.partition,
                                         !.column_name = command.column])

parseModifyColumn(command) ==
    Returned([NewCommand(command) EXCEPT !.type = "READ_COLUMN",
                                         !.column_name = command.col_decl.name,
                                         !.data_type = DataTypeFactory_get(command.col_decl.type)])

parseDropColumn(command) ==
    Returned([NewCommand(command) EXCEPT
                !.type = "DROP_COLUMN",
                !.column_name = command.column,
                !.partition = IF command.partition # NULL THEN command.partition ELSE @,
                !.clear = IF command.clear_column THEN TRUE ELSE @])

parseDropIndex(command) ==
    Returned([NewCommand(command) EXCEPT
                !.type = "DROP_INDEX",
                !.column_name = command.index,
                !.partition = IF command.partition # NULL THEN command.partition ELSE @,
                !.clear = IF command.clear_index THEN TRUE ELSE @])

parseDropStatistic_mut(command) ==
    Returned([NewCommand(command) EXCEPT
                !.type = "DROP_STATISTIC",
                !.column_name = command.statistic_decl[1],
                !.partition = IF command.partition # NULL THEN command.partition ELSE @,
                !.clear = IF command.clear_index THEN TRUE ELSE @,
                !.statistic_columns = command.statistic_decl])

parseDropStatistic(command) ==
    Returned([NewCommand(command) EXCEPT
                !.type = "DROP_STATISTIC",
                !.partition = IF command.partition # NULL THEN command.partition ELSE @,
                !.clear = IF command.clear_index THEN TRUE ELSE @,
                !.statistic_columns = command.statistic_decl])

parseDropProjection(command) ==
    Returned([NewCommand(command) EXCEPT
                !.type = "DROP_PROJECTION",
                !.column_name = command.projection,
                !.partition = IF command.partition # NULL THEN command.partition ELSE @,
                !.clear = IF command.clear_projection THEN TRUE ELSE @])

parseRenameColumn(command) ==
    Returned([NewCommand(command) EXCEPT !.type = "RENAME_COLUMN",
                                         !.column_name = command.column,
                                         !.rename_to = command.rename_to])

parseMaterializeTTL(command) ==
    Returned([NewCommand(command) EXCEPT !.type = "MATERIALIZE_TTL",
                                         !.partition = command.partition])

parseOther(command) ==
    Returned([NewCommand(command) EXCEPT !.type = "ALTER_WITHOUT_MUTATION"])

\* the classifier with the context gate of DROP_COLUMN left out
parse_mut(command, parse_alter_commands) ==
    CASE command.type = "DELETE" -> parseDelete(command)
      [] command.type = "UPDATE" -> parseUpdate(command)
      [] command.type = "MATERIALIZE_INDEX" -> parseMaterializeIndex(command)
      [] command.type = "MATERIALIZE_STATISTIC" -> parseMaterializeStatistic(command)
      [] command.type = "MATERIALIZE_PROJECTION" -> parseMaterializeProjection(command)
      [] command.type = "MATERIALIZE_COLUMN" -> parseMaterializeColumn(command)
      [] parse_alter_commands /\ command.type = "MODIFY_COLUMN" -> parseModifyColumn(command)
      [] command.type = "DROP_COLUMN" -> parseDropColumn(command)
      [] parse_alter_commands /\ command.type = "DROP_INDEX" -> parseDropIndex(command)
      [] parse_alter_commands /\ command.type = "DROP_STATISTIC" -> parseDropStatistic(command)
      [] parse_alter_commands /\ command.type = "DROP_PROJECTION" -> parseDropProjection(command)
      [] parse_alter_commands /\ command.type = "RENAME_COLUMN" -> parseRenameColumn(command)
      [] command.type = "MATERIALIZE_TTL" -> parseMaterializeTTL(command)
      [] OTHER -> parseOther(command)

\* MutationCommand::parse(command, parse_alter_commands): the if / else-if chain
\* (the branch conditions are mutually exclusive, so CASE keeps its order)
parse(command, parse_alter_commands) ==
    CASE command.type = "DELETE" -> parseDelete(command)
      [] command.type = "UPDATE" -> parseUpdate(command)
      [] command.type = "MATERIALIZE_INDEX" -> parseMaterializeIndex(command)
      [] command.type = "MATERIALIZE_STATISTIC" -> parseMaterializeStatistic(command)
      [] command.type = "MATERIALIZE_PROJECTION" -> parseMaterializeProjection(command)
      [] command.type = "MATERIALIZE_COLUMN" -> parseMaterializeColumn(command)
      [] parse_alter_commands /\ command.type = "MODIFY_COLUMN" -> parseModifyColumn(command)
      [] parse_alter_commands /\ command.type = "DROP_COLUMN" -> parseDropColumn(command)
      [] parse_alter_commands /\ command.type = "DROP_INDEX" -> parseDropIndex(command)
      [] parse_alter_commands /\ command.type = "DROP_STATISTIC" -> parseDropStatistic(command)
      [] parse_alter_commands /\ command.type = "DROP_PROJECTION" -> parseDropProjection(command)
      [] parse_alter_commands /\ command.type = "RENAME_COLUMN" -> parseRenameColumn(command)
      [] command.type = "MATERIALIZE_TTL" -> parseMaterializeTTL(command)
      [] OTHER -> parseOther(command)

\* ------------------------------------------------------ MutationCommands
RECURSIVE CloneAll(_, _)
CloneAll(commands, i) ==
    IF i > Len(commands) THEN << >> ELSE <<commands[i].ast>> \o CloneAll(commands, i + 1)

ast_mut(commands, with_pure_metadata_commands) == CloneAll(commands, 1)

RECURSIVE AstLoop(_, _, _)
AstLoop(commands, i, with_pure_metadata_commands) ==
    IF i > Len(commands) THEN << >>
    ELSE (IF commands[i].type # "ALTER_WITHOUT_MUTATION" \/ with_pure_metadata_commands
          THEN <<commands[i].ast>> ELSE << >>)
         \o AstLoop(commands, i + 1, with_pure_metadata_commands)

\* MutationCommands::ast: the children of the expression list it returns
ast(commands, with_pure_metadata_commands) == AstLoop(commands, 1, with_pure_metadata_commands)

writeText(commands, with_pure_metadata_commands) ==
    writeEscapedString(formatAST(ast(commands, with_pure_metadata_commands)))

RECURSIVE ReadLoop_mut(_, _, _)
ReadLoop_mut(children, i, list) ==
    IF i > Len(children) THEN [thrown |-> NULL, list |-> list]
    ELSE LET command == parse(children[i], FALSE)
         IN  IF command.thrown # NULL THEN [thrown |-> command.thrown, list |-> list]
             ELSE IF ~command.has_value
                  THEN [thrown |-> "UNKNOWN_MUTATION_COMMAND", list |-> list]
                  ELSE ReadLoop_mut(children, i + 1, Append(list, command.value))

RECURSIVE ReadLoop(_, _, _)
\* the loop of readText over commands_ast->children; list is *this so far
ReadLoop(children, i, list) ==
    IF i > Len(children) THEN [thrown |-> NULL, list |-> list]
    ELSE LET command == parse(children[i], TRUE)
         IN  IF command.thrown # NULL THEN [thrown |-> command.thrown, list |-> list]
             ELSE IF ~command.has_value
                  THEN [thrown |-> "UNKNOWN_MUTATION_COMMAND", list |-> list]
                  ELSE ReadLoop(children, i + 1, Append(list, command.value))

\* MutationCommands::readText on the list `list`: the error thrown, if any, and
\* the list as the call leaves it
readText(list, in) ==
    LET commands_str == readEscapedString(in)
        commands_ast == parseQuery(commands_str)
    IN  IF commands_ast.thrown # NULL
        THEN [thrown |-> commands_ast.thrown, list |-> list]
        ELSE ReadLoop(commands_ast.children, 1, list)

\* MutationCommands::toString; ast_default is the default argument of ast(),
\* which the declaration of the class sets
toString(commands, ast_default) == formatAST(ast(commands, ast_default))

RECURSIVE hasNonEmptyMutationCommands_mut(_, _)
hasNonEmptyMutationCommands_mut(commands, i) ==
    IF i > Len(commands) THEN FALSE
    ELSE IF commands[i].type # "ALTER_WITHOUT_MUTATION" THEN TRUE
    ELSE hasNonEmptyMutationCommands_mut(commands, i + 1)

RECURSIVE hasNonEmptyMutationCommands(_, _)
\* the loop from position i on
hasNonEmptyMutationCommands(commands, i) ==
    IF i > Len(commands) THEN FALSE
    ELSE IF commands[i].type # "EMPTY" /\ commands[i].type # "ALTER_WITHOUT_MUTATION" THEN TRUE
    ELSE hasNonEmptyMutationCommands(commands, i + 1)

RECURSIVE containBarrierCommand(_, _)
containBarrierCommand(commands, i) ==
    IF i > Len(commands) THEN FALSE
    ELSE IF isBarrierCommand(commands[i]) THEN TRUE
    ELSE containBarrierCommand(commands, i + 1)

\* ------------------------------------------------------------------ state
VARIABLES
    commands,               \* the MutationCommands list of the statement
    parse_alter_commands,   \* the context flag the statement is classified under
    out,                    \* the text of the mutation entry
    out_from,               \* "none", "writeText_true", "writeText_false" or "stored"
    target,                 \* the MutationCommands list readText decodes into
    target_pre,             \* target as it was when the last readText was called
    res                     \* the last call and what it returned or threw

vars == <<commands, parse_alter_commands, out, out_from, target, target_pre, res>>

NoRes ==
    [op |-> "none", thrown |-> NULL, node |-> NullAST, value |-> EmptyCommand,
     flag |-> FALSE, bool |-> FALSE, text |-> << >>]

Init ==
    /\ commands = << >>
    /\ parse_alter_commands \in BOOLEAN
    /\ out = << >>
    /\ out_from = "none"
    /\ target = << >>
    /\ target_pre = << >>
    /\ res = NoRes

\* MutationCommand::parse applied to one node (the pure classifier)
Classify ==
    \E node \in Nodes :
        LET r == parse(node, parse_alter_commands)
        IN  /\ res' = [NoRes EXCEPT !.op = "parse", !.thrown = r.thrown, !.node = node,
                                    !.value = r.value, !.flag = parse_alter_commands,
                                    !.bool = r.has_value]
            /\ UNCHANGED <<commands, parse_alter_commands, out, out_from, target, target_pre>>

\* one command of the statement is classified and appended to its list; an
\* error leaves the list as it was
Parse ==
    /\ out_from = "none"
    /\ Len(commands) < MaxLen
    /\ \E node \in ListNodes :
           LET r == parse(node, parse_alter_commands)
           IN  /\ commands' = IF r.thrown = NULL /\ r.has_value
                              THEN Append(commands, r.value) ELSE commands
               /\ res' = [NoRes EXCEPT !.op = "parse", !.thrown = r.thrown, !.node = node,
                                       !.value = r.value, !.flag = parse_alter_commands,
                                       !.bool = r.has_value]
    /\ UNCHANGED <<parse_alter_commands, out, out_from, target, target_pre>>

\* a default-constructed command is appended to the list
PushEmpty ==
    /\ out_from = "none"
    /\ Len(commands) < MaxLen
    /\ commands' = Append(commands, EmptyCommand)
    /\ res' = [NoRes EXCEPT !.op = "push_back"]
    /\ UNCHANGED <<parse_alter_commands, out, out_from, target, target_pre>>

AllHaveAst(list) == \A i \in 1..Len(list) : list[i].ast # NullAST

WriteText ==
    /\ out_from = "none"
    /\ AllHaveAst(commands)
    /\ \E with_pure_metadata_commands \in BOOLEAN :
           /\ out' = writeText(commands, with_pure_metadata_commands)
           /\ out_from' = IF with_pure_metadata_commands
                          THEN "writeText_true" ELSE "writeText_false"
           /\ res' = [NoRes EXCEPT !.op = "writeText", !.flag = with_pure_metadata_commands]
    /\ UNCHANGED <<commands, parse_alter_commands, target, target_pre>>

\* a mutation entry found in the log: the escaped rendering of some command list
StoredEntry ==
    /\ out_from = "none"
    /\ commands = << >>
    /\ \E nodes \in SeqsUpTo(ListNodes, MaxLen) :
           out' = writeEscapedString(formatAST(nodes))
    /\ out_from' = "stored"
    /\ res' = [NoRes EXCEPT !.op = "stored"]
    /\ UNCHANGED <<commands, parse_alter_commands, target, target_pre>>

ReadText ==
    /\ out_from # "none"
    /\ Len(target) < MaxLen
    /\ LET r == readText(target, out)
       IN  /\ target' = r.list
           /\ res' = [NoRes EXCEPT !.op = "readText", !.thrown = r.thrown]
    /\ target_pre' = target
    /\ UNCHANGED <<commands, parse_alter_commands, out, out_from>>

ToString ==
    /\ out_from = "none"
    /\ AllHaveAst(commands)
    /\ \E ast_default \in BOOLEAN :
           res' = [NoRes EXCEPT !.op = "toString", !.flag = ast_default,
                                !.text = toString(commands, ast_default)]
    /\ UNCHANGED <<commands, parse_alter_commands, out, out_from, target, target_pre>>

HasNonEmptyMutationCommands ==
    /\ out_from = "none"
    /\ res' = [NoRes EXCEPT !.op = "hasNonEmptyMutationCommands",
                            !.bool = hasNonEmptyMutationCommands(commands, 1)]
    /\ UNCHANGED <<commands, parse_alter_commands, out, out_from, target, target_pre>>

ContainBarrierCommand ==
    /\ out_from = "none"
    /\ res' = [NoRes EXCEPT !.op = "containBarrierCommand",
                            !.bool = containBarrierCommand(commands, 1)]
    /\ UNCHANGED <<commands, parse_alter_commands, out, out_from, target, target_pre>>

Next ==
    \/ Parse
    \/ PushEmpty
    \/ WriteText
    \/ StoredEntry
    \/ ReadText
    \/ ToString
    \/ HasNonEmptyMutationCommands
    \/ ContainBarrierCommand

Spec == Init /\ [][Next]_vars

\* the classifier alone, applied to every node of Nodes under both contexts
NextParse == Classify

SpecParse == Init /\ [][NextParse]_vars

\* ================================================================ claims
UngatedKinds ==
    {"DELETE", "UPDATE", "MATERIALIZE_INDEX", "MATERIALIZE_STATISTIC",
     "MATERIALIZE_PROJECTION", "MATERIALIZE_COLUMN", "MATERIALIZE_TTL"}
GatedKinds ==
    {"MODIFY_COLUMN", "DROP_COLUMN", "DROP_INDEX", "DROP_STATISTIC", "DROP_PROJECTION",
     "RENAME_COLUMN"}
DropTypes == {"DROP_COLUMN", "DROP_INDEX", "DROP_STATISTIC", "DROP_PROJECTION"}

ExpectedType(kind, flag) ==
    IF kind \in UngatedKinds THEN kind
    ELSE IF kind \in GatedKinds /\ flag
         THEN (IF kind = "MODIFY_COLUMN" THEN "READ_COLUMN" ELSE kind)
         ELSE "ALTER_WITHOUT_MUTATION"

Classified == res.op = "parse" /\ res.thrown = NULL

\* C1: whenever parse returns, it returns a command (never an empty optional, never
\* EMPTY) whose type is the one the pair (node kind, context flag) fixes: the node's
\* own variant for the seven ungated kinds, READ_COLUMN / DROP_* / RENAME_COLUMN for
\* the six gated kinds under flag true, ALTER_WITHOUT_MUTATION otherwise.
C1_TypeFixedByKindAndFlag ==
    Classified =>
        /\ res.bool
        /\ res.value.type # "EMPTY"
        /\ res.value.type = ExpectedType(res.node.type, res.flag)

C1_Witness ==
    /\ Classified
    /\ res.node.type = "DROP_COLUMN"
    /\ ~res.flag
    /\ res.value.type = "ALTER_WITHOUT_MUTATION"

HasDuplicateColumn(asgs) ==
    \E i, j \in 1..Len(asgs) : i < j /\ asgs[i].column_name = asgs[j].column_name

\* C2: classifying an UPDATE node throws MULTIPLE_ASSIGNMENTS_TO_COLUMN exactly when
\* two of its assignments name the same column; otherwise it succeeds and the update
\* mapping has one entry per assignment, column name to that assignment's expression.
C2_UpdateDuplicateAssignment ==
    (res.op = "parse" /\ res.node.type = "UPDATE") =>
        LET asgs == res.node.update_assignments
        IN  /\ (res.thrown = "MULTIPLE_ASSIGNMENTS_TO_COLUMN") <=> HasDuplicateColumn(asgs)
            /\ ~HasDuplicateColumn(asgs) =>
                  /\ res.thrown = NULL
                  /\ res.value.type = "UPDATE"
                  /\ res.value.column_to_update_expression =
                        {<<asgs[i].column_name, asgs[i].expression>> : i \in 1..Len(asgs)}
                  /\ Cardinality(res.value.column_to_update_expression) = Len(asgs)

C2_Witness ==
    /\ res.op = "parse"
    /\ res.node.type = "UPDATE"
    /\ Len(res.node.update_assignments) = 2
    /\ res.thrown = "MULTIPLE_ASSIGNMENTS_TO_COLUMN"

NotMetadataOnly(c) == c.type # "ALTER_WITHOUT_MUTATION"

DecodedWithoutMetadataOnly ==
    res.op = "readText" /\ out_from = "writeText_false" /\ target_pre = << >>

FieldsOf(type) ==
    CASE type \in {"DELETE"} -> {"predicate", "partition"}
      [] type = "UPDATE" -> {"predicate", "partition", "column_to_update_expression"}
      [] type = "MATERIALIZE_INDEX" -> {"partition", "index_name"}
      [] type = "MATERIALIZE_STATISTIC" -> {"partition", "statistic_columns"}
      [] type = "MATERIALIZE_PROJECTION" -> {"partition", "projection_name"}
      [] type = "MATERIALIZE_COLUMN" -> {"partition", "column_name"}
      [] type = "MATERIALIZE_TTL" -> {"partition"}
      [] type = "READ_COLUMN" -> {"column_name", "data_type"}
      [] type \in {"DROP_COLUMN", "DROP_INDEX", "DROP_PROJECTION"} ->
           {"column_name", "partition", "clear"}
      [] type = "DROP_STATISTIC" -> {"statistic_columns", "partition", "clear"}
      [] type = "RENAME_COLUMN" -> {"column_name", "rename_to"}
      [] OTHER -> {}

OptionalFields ==
    {"predicate", "partition", "column_to_update_expression", "column_name", "rename_to",
     "index_name", "projection_name", "statistic_columns", "data_type", "clear"}

DecodedWithMetadataOnly ==
    res.op = "readText" /\ out_from = "writeText_true" /\ target_pre = << >>

\* C4 as stated: decoding the text written with with_pure_metadata_commands = true
\* yields a list of the same length whose i-th command has the type and the content
\* of the i-th command of the list, whichever context flag the list was classified
\* under.
C4_Original ==
    DecodedWithMetadataOnly =>
        /\ Len(target) = Len(commands)
        /\ \A i \in 1..Len(commands) :
              /\ target[i].type = commands[i].type
              /\ target[i].predicate = commands[i].predicate
              /\ target[i].partition = commands[i].partition
              /\ target[i].column_name = commands[i].column_name
              /\ target[i].rename_to = commands[i].rename_to
              /\ target[i].index_name = commands[i].index_name
              /\ target[i].projection_name = commands[i].projection_name

\* C4 amended: the decoded list has the length of the list, and its i-th command is
\* the classification under mutation context (flag true) of the i-th command's node;
\* it equals the i-th command when the list was classified under flag true or the
\* node is not of a context-gated kind; a gated node comes back with the fields of
\* its variant's row populated; the decode of a non-empty list succeeds.
C4_RoundTripReclassifiesUnderMutationContext ==
    DecodedWithMetadataOnly =>
        /\ Len(target) = Len(commands)
        /\ \A i \in 1..Len(commands) :
              /\ target[i].type = ExpectedType(commands[i].ast.type, TRUE)
              /\ target[i].ast = commands[i].ast
              /\ (parse_alter_commands \/ commands[i].ast.type \notin GatedKinds)
                    => target[i] = commands[i]
              /\ commands[i].ast.type \in GatedKinds \ {"MODIFY_COLUMN"} =>
                    /\ target[i].partition = commands[i].ast.partition
                    /\ target[i].rename_to = commands[i].ast.rename_to
              /\ \A f \in FieldsOf(target[i].type) \ {"partition", "clear"} :
                    target[i][f] # EmptyCommand[f]
              /\ \A f \in OptionalFields \ FieldsOf(target[i].type) :
                    target[i][f] = EmptyCommand[f]
        /\ commands # << >> => res.thrown = NULL

C4_Witness ==
    /\ DecodedWithMetadataOnly
    /\ ~parse_alter_commands
    /\ Len(commands) = 2
    /\ commands[1].type = "DELETE"
    /\ commands[2].type = "ALTER_WITHOUT_MUTATION"
    /\ target[1] = commands[1]
    /\ target[2].type = "RENAME_COLUMN"

\* C5: a readText that ends in an error leaves the target list exactly as it was
\* before the call.
C5_ReadTextAllOrNothing ==
    (res.op = "readText" /\ res.thrown # NULL) => target = target_pre

\* C6: isBarrierCommand is true of RENAME_COLUMN commands and of no other, and
\* containBarrierCommand is true exactly of the lists holding a RENAME_COLUMN
\* command, at whatever position; it is false of the empty list.
C6_BarrierIsRenameColumn ==
    /\ \A i \in 1..Len(commands) :
          isBarrierCommand(commands[i]) <=> commands[i].type = "RENAME_COLUMN"
    /\ ~isBarrierCommand(EmptyCommand)
    /\ res.op = "containBarrierCommand" =>
          (res.bool <=> \E i \in 1..Len(commands) : commands[i].type = "RENAME_COLUMN")

C6_Witness ==
    /\ res.op = "containBarrierCommand"
    /\ res.bool
    /\ Len(commands) = 2
    /\ commands[1].type = "DROP_COLUMN"
    /\ commands[2].type = "RENAME_COLUMN"

\* C7: hasNonEmptyMutationCommands is true exactly of the lists holding a command
\* whose type is neither EMPTY nor ALTER_WITHOUT_MUTATION (so false of the empty
\* list), and the call leaves the list as it was.
C7_HasNonEmptyMutationCommands ==
    /\ [](res.op = "hasNonEmptyMutationCommands" =>
            (res.bool <=> \E i \in 1..Len(commands) :
                             commands[i].type \notin {"EMPTY", "ALTER_WITHOUT_MUTATION"}))
    /\ [][res'.op = "hasNonEmptyMutationCommands" => commands' = commands]_vars

C7_Witness ==
    /\ res.op = "hasNonEmptyMutationCommands"
    /\ ~res.bool
    /\ Len(commands) = 2
    /\ commands[1].type = "ALTER_WITHOUT_MUTATION"
    /\ commands[2].type = "EMPTY"

\* C9: a command parse returns keeps the node as its syntax reference, leaves at its
\* default every field that the row of its variant does not list, and has the
\* identifying fields of its row (names, statistic columns, data type, rename
\* target, update mapping, DELETE/UPDATE predicate) populated.
C9_FieldsDeterminedByType ==
    Classified =>
        LET c == res.value
            row == FieldsOf(c.type)
        IN  /\ c.ast = res.node
            /\ \A f \in OptionalFields \ row : c[f] = EmptyCommand[f]
            /\ \A f \in row \ {"partition", "clear"} : c[f] # EmptyCommand[f]

C9_Witness ==
    /\ Classified
    /\ res.value.type = "DROP_STATISTIC"
    /\ res.value.partition # NULL
    /\ res.value.statistic_columns = <<"a", "b">>
    /\ res.value.column_name = NULL

ClearFlagOf(node) ==
    CASE node.type = "DROP_COLUMN" -> node.clear_column
      [] node.type = "DROP_INDEX" -> node.clear_index
      [] node.type = "DROP_STATISTIC" -> node.clear_statistic
      [] node.type = "DROP_PROJECTION" -> node.clear_projection

\* C10: under mutation context, the clear field of a DROP_COLUMN, DROP_INDEX,
\* DROP_STATISTIC or DROP_PROJECTION command is the node's clear flag of that same
\* kind of object, and its partition is present exactly when the node has one.
C10_ClearFollowsOwnFlag ==
    (Classified /\ res.flag /\ res.node.type \in DropTypes) =>
        /\ res.value.clear = ClearFlagOf(res.node)
        /\ (res.value.partition # NULL) <=> (res.node.partition # NULL)

====
